---- MODULE Spec2Model ----
(***************************************************************************)
(* finam-plot: push-based plot components driven by a host scheduler.      *)
(*                                                                         *)
(* One component instance (its kind and configuration are fixed by the     *)
(* constructor) is driven through initialize / connect / validate /        *)
(* update / finalize by the host, and notified through the callback        *)
(* _data_changed of its inputs.  Every handler is a function from the      *)
(* component's fields to its fields after the call; a Python exception     *)
(* ends the handler where it is raised, keeps the assignments made before  *)
(* it, and is recorded in the field err (the host aborts the run).         *)
(***************************************************************************)
EXTENDS Integers, Sequences, FiniteSets, TLC

\* ------------------------------------------------------------------ bounds
MaxTime == 2
MaxInterval == 2
MaxCalls == 4
MaxNotes == 3
MaxUpdates == 4
ScnDays == 10

\* The generators' steps in the two-generator run, in days.
StepA == 1
StepB == 3

\* ------------------------------------------------------------- value sets
\* A notification's time argument: None, a datetime (0..MaxTime), or a value
\* that is neither (an int, a string).
NoneTime == 0 - 1
BadTime == 0 - 2
Times == 0..MaxTime
TimeArgs == Times \cup {NoneTime, BadTime}

GridPlots == {"ImagePlot", "ColorMeshPlot", "ContourPlot"}
SeriesPlots == {"TimeSeriesPlot", "XyPlot", "SchedulePlot", "GridSpecPlot"}
Kinds == GridPlots \cup SeriesPlots
\* The components whose constructor takes update_interval.
CadencePlots == {"ContourPlot", "TimeSeriesPlot", "XyPlot"}

\* The inputs a component declares: "Grid" for the grid plots, two named
\* series for the others (input 0 stands for "no caller", None).
InputsOf(kind) == IF kind \in GridPlots THEN {1} ELSE {1, 2}

\* Grid descriptors a producer can publish.
Grids == {"NoGrid", "UniformGrid2", "UniformGrid3", "RectilinearGrid2",
          "RectilinearGrid3", "UnstructuredPoints", "UnstructuredGrid"}
IsUniform(g) == g \in {"UniformGrid2", "UniformGrid3"}
\* fm.UniformGrid is a subclass of fm.RectilinearGrid.
IsRectilinear(g) == IsUniform(g) \/ g \in {"RectilinearGrid2", "RectilinearGrid3"}
IsStructured(g) == IsRectilinear(g)
GridDim(g) == IF g \in {"UniformGrid3", "RectilinearGrid3"} THEN 3
              ELSE IF g = "NoGrid" THEN 1 ELSE 2

\* The producers the model wires to each kind of component.
GridsFor(kind) ==
    CASE kind \in {"ImagePlot", "ColorMeshPlot"} ->
             {"UniformGrid2", "UniformGrid3", "RectilinearGrid2", "NoGrid"}
      [] kind = "ContourPlot" -> {"UniformGrid2", "UnstructuredPoints"}
      [] kind = "XyPlot" -> {"NoGrid", "UniformGrid2", "UnstructuredPoints"}
      [] kind = "GridSpecPlot" -> {"UniformGrid2"}
      [] OTHER -> {"NoGrid"}

\* The axes argument of ImagePlot and ColorMeshPlot: (0, 1), (1, 0), other.
AxesArgs == {"01", "10", "other"}

Before == {"INITIALIZED", "CONNECTING", "CONNECTED"}
Running == {"VALIDATED", "UPDATED"}

\* ------------------------------------------------------------------ state
VARIABLES
    c,          \* the component's fields (and observation counters)
    produced,   \* produced[i]: the producer of input i has pushed data
    resolved,   \* the inputs whose info the connector has resolved
    grid,       \* grid[i]: the grid the producer of input i publishes
    last,       \* the last call made on the component
    h,          \* what the notifications did so far
    n,          \* calls made since the connect phase started, connect rounds aside
    twin        \* a second instance given the same calls (pair runs only)

vars == <<c, produced, resolved, grid, last, h, n, twin>>

\* __init__ of every component (PlotBase.__init__ for the cadence fields).
NewComponent(kind, interval, axes) ==
    [ kind |-> kind,
      N |-> interval,
      axesArg |-> axes,
      status |-> "CREATED",
      err |-> "none",
      inputs |-> {},
      time |-> NoneTime,
      caller |-> 0,
      figure |-> FALSE,
      info |-> [i \in {1, 2} |-> "None"],
      infos |-> FALSE,
      prim |-> FALSE,
      timeText |-> FALSE,
      x |-> [i \in {1, 2} |-> <<>>],
      data |-> [i \in {1, 2} |-> <<>>],
      counter |-> 0,
      flushes |-> 0,
      pulls |-> 0,
      figCreated |-> 0,
      primCreated |-> 0,
      \* lineX: the x-data last handed to the line of each input (set_xdata);
      \* shown: the line data painted by the last draw and flush

      sig |-> "none",
      \* shownPulls: how many pulls had been made when the last flush painted
      shownPulls |-> 0,
      \* asked: the inputs pull_data was called on during the current call
      asked |-> {},
      avail |-> {},
      lineX |-> [i \in {1, 2} |-> <<>>],
      shown |-> [i \in {1, 2} |-> <<>>] ]

Raise(s, exc) == [s EXCEPT !.err = exc]
Ok(s) == s.err = "none"

\* ------------------------------------------------- framework primitives
\* Input.pull_data(time): the signal it raises, "none" when it returns data.
PullSignal(s, i, t) ==
    IF t = BadTime THEN "ValueError"
    ELSE IF i \notin s.avail THEN "FinamNoDataError"
    ELSE "none"

\* The value pull_data returns: the producer's value for the pulled time.
PullValue(i, t) == <<i, t>>

\* The inputs whose initial data the connector pulls itself
\* (create_connector(pull_data=...)): every input of a TimeSeriesPlot.
PullData(s) == IF s.kind = "TimeSeriesPlot" THEN s.inputs ELSE {}

\* Component.try_connect: the connector resolves the infos of R, pulls the
\* data of the inputs in PullData whose info is resolved, and sets the status
\* to what it returns: CONNECTED once nothing is left to exchange or pull.
try_connect(s, R) ==
    [s EXCEPT !.status = IF R = s.inputs /\ PullData(s) \subseteq s.avail
                         THEN "CONNECTED" ELSE "CONNECTING"]

\* tools.create_figure / PlotBase.create_figure
create_figure(s) ==
    [s EXCEPT !.figure = TRUE, !.figCreated = @ + 1]

\* PlotBase.should_repaint: the answer, and the counter after it.
should_repaint(s) == s.counter % s.N = 0
tick(s) == [s EXCEPT !.counter = @ + 1]

\* PlotBase.repaint / XyPlot._repaint / StepTimeSeriesPlot._repaint: the axes
\* are None until the figure is created.
repaint(s) ==
    IF ~s.figure THEN Raise(s, "AttributeError")
    ELSE [s EXCEPT !.flushes = @ + 1, !.shown = s.lineX,
                   !.shownPulls = s.pulls]


\* ---------------------------------------------------------------- ImagePlot
\* Variant: every plot pass creates the image and the time text anew.
ImagePlot_plot_image_anew(s) ==
    IF s.axesArg \notin {"01", "10"} THEN Raise(s, "ValueError")
    ELSE [s EXCEPT !.prim = TRUE, !.timeText = TRUE, !.primCreated = @ + 1]

\* Variant: the image is created before the axes pair is checked.
ImagePlot_plot_image_first(s) ==
    LET s1 == IF ~s.prim THEN [s EXCEPT !.prim = TRUE, !.timeText = TRUE,
                                        !.primCreated = @ + 1]
              ELSE s
    IN  IF s.axesArg \notin {"01", "10"} THEN Raise(s1, "ValueError") ELSE s1

\* ImagePlot._plot_image: the axes pair is checked, then the image is created
\* on the first pass (with the time text) and mutated afterwards.
ImagePlot_plot_image(s) ==
    IF s.axesArg \notin {"01", "10"} THEN Raise(s, "ValueError")
    ELSE IF ~s.prim THEN [s EXCEPT !.prim = TRUE, !.timeText = TRUE,
                                   !.primCreated = @ + 1]
    ELSE s

\* ImagePlot._plot and ColorMeshPlot._plot up to the except clause: the pull,
\* and the statuses in which FinamNoDataError is swallowed.
SwallowStatuses == {"VALIDATED", "INITIALIZED"}

PullGrid(s) ==
    LET sg == PullSignal(s, 1, s.time)
        s0 == [s EXCEPT !.asked = @ \cup {1}]
    IN
    IF sg = "none" THEN [s0 EXCEPT !.pulls = @ + 1]
    ELSE IF sg = "FinamNoDataError"
         THEN IF s.status \in SwallowStatuses
              THEN [s0 EXCEPT !.sig = sg]
              ELSE Raise([s0 EXCEPT !.sig = sg], sg)
    ELSE Raise(s0, sg)

Flush(s) == [s EXCEPT !.flushes = @ + 1, !.shown = s.lineX,
                   !.shownPulls = s.pulls]

\* Variant: the figure is created before the pull.
ImagePlot_plot_eager(s) ==
    LET s1 == PullGrid(IF ~s.figure THEN create_figure(s) ELSE s) IN
    IF ~Ok(s1) \/ s1.sig # "none" THEN s1
    ELSE IF s1.info[1] = "None" THEN Raise(s1, "AttributeError")
    ELSE LET s3 == ImagePlot_plot_image(s1)
         IN  IF Ok(s3) THEN Flush(s3) ELSE s3

ImagePlot_plot(s) ==
    LET s1 == PullGrid(s) IN
    IF ~Ok(s1) \/ s1.sig # "none" THEN s1
    ELSE IF s1.info[1] = "None" THEN Raise(s1, "AttributeError")
    ELSE LET s2 == IF ~s1.figure THEN create_figure(s1) ELSE s1
             s3 == ImagePlot_plot_image(s2)
         IN  IF Ok(s3) THEN Flush(s3) ELSE s3

\* The time check that opens _data_changed of the three grid plots.
TimeKindOk(t) == t = NoneTime \/ t \in Times

\* Variant: the callback stores the time before it checks its kind.
ImagePlot_data_changed_stored(s, i, t) ==
    IF ~TimeKindOk(t) THEN Raise([s EXCEPT !.time = t], "ValueError")
    ELSE ImagePlot_plot([s EXCEPT !.time = t])

\* Variant: the callback stores the time and plots without checking its kind.
ImagePlot_data_changed_unchecked(s, i, t) ==
    ImagePlot_plot([s EXCEPT !.time = t])

ImagePlot_data_changed(s, i, t) ==
    IF ~TimeKindOk(t) THEN Raise(s, "ValueError")
    ELSE ImagePlot_plot([s EXCEPT !.time = t])

\* Variant: connect records the info without checking the grid.
ImagePlot_connect_unchecked(s, R) ==
    LET s1 == try_connect(s, R) IN
    IF 1 \notin R THEN s1 ELSE [s1 EXCEPT !.info[1] = grid[1]]

ImagePlot_connect(s, R) ==
    LET s1 == try_connect(s, R) IN
    IF 1 \notin R THEN s1
    ELSE LET s2 == [s1 EXCEPT !.info[1] = grid[1]] IN
         IF IsUniform(grid[1]) /\ GridDim(grid[1]) = 2 THEN s2
         ELSE Raise(s2, "ValueError")

\* ------------------------------------------------------------ ColorMeshPlot
ColorMeshPlot_plot_image(s) ==
    IF s.axesArg \notin {"01", "10"} THEN Raise(s, "ValueError")
    ELSE IF ~s.prim THEN [s EXCEPT !.prim = TRUE, !.timeText = TRUE,
                                   !.primCreated = @ + 1]
    ELSE s

ColorMeshPlot_plot(s) ==
    LET s1 == PullGrid(s) IN
    IF ~Ok(s1) \/ s1.sig # "none" THEN s1
    ELSE LET s2 == IF ~s1.figure THEN create_figure(s1) ELSE s1 IN
         IF s2.info[1] = "None" THEN Raise(s2, "AttributeError")
         ELSE LET s3 == ColorMeshPlot_plot_image(s2)
              IN  IF Ok(s3) THEN Flush(s3) ELSE s3

ColorMeshPlot_data_changed(s, i, t) ==
    IF ~TimeKindOk(t) THEN Raise(s, "ValueError")
    ELSE ColorMeshPlot_plot([s EXCEPT !.time = t])

ColorMeshPlot_connect(s, R) ==
    LET s1 == try_connect(s, R) IN
    IF 1 \notin R THEN s1
    ELSE LET s2 == [s1 EXCEPT !.info[1] = grid[1]] IN
         IF IsRectilinear(grid[1]) /\ GridDim(grid[1]) = 2 THEN s2
         ELSE Raise(s2, "ValueError")

\* -------------------------------------------------------------- ContourPlot
\* ContourPlot._plot: pull, cadence gate, then the drawing pass.  The drawing
\* pass reads the plot axes through self._info.grid.axes, the grid's list of
\* coordinate arrays, which has no set_aspect (nor clear, contourf): the
\* first pass raises AttributeError right after the figure is created.
ContourPlot_draw(s) ==
    IF ~s.figure
    THEN Raise(create_figure(s), "AttributeError")
    ELSE IF ~s.timeText THEN Raise(s, "AttributeError")
    ELSE Raise(s, "TypeError")

ContourPlot_plot(s) ==
    LET s1 == PullGrid(s) IN
    IF ~Ok(s1) \/ s1.sig # "none" THEN s1
    ELSE LET rep == should_repaint(s1)
             s2 == tick(s1)
         IN  IF ~rep THEN s2 ELSE ContourPlot_draw(s2)

ContourPlot_data_changed(s, i, t) ==
    IF ~TimeKindOk(t) THEN Raise(s, "ValueError")
    ELSE ContourPlot_plot([s EXCEPT !.time = t])

ContourPlot_connect(s, R) ==
    LET s1 == try_connect(s, R) IN
    IF 1 \in R THEN [s1 EXCEPT !.info[1] = grid[1]] ELSE s1


\* ----------------------------------------------------------- TimeSeriesPlot
\* Variant: the loop pulls and appends for every input, whoever the caller is.
TimeSeriesPlot_pull_any(s, i) ==
    IF ~Ok(s) THEN s
    ELSE LET sg == PullSignal(s, i, s.time) IN
         IF sg # "none"
         THEN Raise([s EXCEPT !.sig = sg, !.asked = @ \cup {i}], sg)
         ELSE [s EXCEPT !.pulls = @ + 1,
                        !.asked = @ \cup {i},
                        !.x[i] = Append(@, s.time),
                        !.data[i] = Append(@, PullValue(i, s.time)),
                        !.lineX[i] = Append(s.x[i], s.time)]

\* One iteration of the loop of TimeSeriesPlot._update_plot: input i is pulled
\* when it is the caller (or there is none), and its time and value appended.
TimeSeriesPlot_pull(s, i) ==
    IF ~Ok(s) \/ ~(s.caller = 0 \/ s.caller = i) THEN s
    ELSE LET sg == PullSignal(s, i, s.time) IN
         IF sg # "none"
         THEN Raise([s EXCEPT !.sig = sg, !.asked = @ \cup {i}], sg)
         ELSE [s EXCEPT !.pulls = @ + 1,
                        !.asked = @ \cup {i},
                        !.x[i] = Append(@, s.time),
                        !.data[i] = Append(@, PullValue(i, s.time)),
                        !.lineX[i] = Append(s.x[i], s.time)]

\* The line list is created on the first call (axes.plot needs the figure).
TimeSeriesPlot_update_plot(s) ==
    LET s1 == IF s.prim THEN s
              ELSE IF ~s.figure THEN Raise(s, "AttributeError")
              ELSE [s EXCEPT !.prim = TRUE, !.primCreated = @ + 1]
    IN  TimeSeriesPlot_pull(TimeSeriesPlot_pull(s1, 1), 2)

\* Variant: every connect round creates a figure.
TimeSeriesPlot_connect_again(s, R) ==
    try_connect(create_figure(s), R)

TimeSeriesPlot_connect(s, R) ==
    try_connect(IF ~s.figure THEN create_figure(s) ELSE s, R)

\* Variant: validate() keeps the caller of the last notification.
TimeSeriesPlot_validate_keep(s) == TimeSeriesPlot_update_plot(s)

\* Variant: validate() pulls the first input only.
TimeSeriesPlot_validate_first(s) ==
    TimeSeriesPlot_update_plot([s EXCEPT !.caller = 1])

TimeSeriesPlot_validate(s) ==
    TimeSeriesPlot_update_plot([s EXCEPT !.caller = 0])

\* Variant: the gate ticks on every notification, whatever its time.
TimeSeriesPlot_gate_every(s, t) ==
    IF should_repaint(s) THEN repaint(tick(s)) ELSE tick(s)

\* The cadence gate of TimeSeriesPlot._data_changed: should_repaint ticks the
\* counter, then the repaint runs.
TimeSeriesPlot_gate(s, t) ==
    IF s.time = t THEN s
    ELSE IF should_repaint(s) THEN repaint(tick(s)) ELSE tick(s)

\* Variant: the callback updates the plot first and repaints afterwards.
TimeSeriesPlot_data_changed_late(s, i, t) ==
    LET s2 == [s EXCEPT !.caller = i, !.time = t]
        s3 == IF s2.status \in {"UPDATED", "VALIDATED"}
              THEN TimeSeriesPlot_update_plot(s2)
              ELSE s2
    IN  IF ~Ok(s3) \/ s.time = t THEN s3
        ELSE IF should_repaint(s3) THEN repaint(tick(s3)) ELSE tick(s3)

\* Variant: the callback updates the plot in every status.
TimeSeriesPlot_data_changed_ungated(s, i, t) ==
    LET s1 == TimeSeriesPlot_gate(s, t) IN
    IF ~Ok(s1) THEN s1
    ELSE TimeSeriesPlot_update_plot([s1 EXCEPT !.caller = i, !.time = t])

TimeSeriesPlot_data_changed(s, i, t) ==
    LET s1 == TimeSeriesPlot_gate(s, t) IN
    IF ~Ok(s1) THEN s1
    ELSE LET s2 == [s1 EXCEPT !.caller = i, !.time = t] IN
         IF s2.status \in {"UPDATED", "VALIDATED"}
         THEN TimeSeriesPlot_update_plot(s2)
         ELSE s2

TimeSeriesPlot_finalize(s) == repaint(s)

\* ------------------------------------------------------------------- XyPlot
\* XyPlot._extract_data: NoGrid and structured grids are drawn.
XyPlot_extract_data(s, g) ==
    IF g = "NoGrid" \/ IsStructured(g) THEN s ELSE Raise(s, "ValueError")

\* Variant: every input is pulled, whoever the caller is.
XyPlot_pull_every(s, i) ==
    IF ~Ok(s) THEN s
    ELSE LET sg == PullSignal(s, i, s.time) IN
         IF sg # "none"
         THEN Raise([s EXCEPT !.sig = sg, !.asked = @ \cup {i}], sg)
         ELSE [s EXCEPT !.pulls = @ + 1, !.asked = @ \cup {i},
                        !.x[i] = <<s.time>>,
                        !.data[i] = <<PullValue(i, s.time)>>,
                        !.lineX[i] = <<s.time>>]

\* One iteration of the loop of XyPlot._update_plot; the line of input i holds
\* the latest value only.
XyPlot_pull(s, i) ==
    IF ~Ok(s) \/ s.caller # i THEN s
    ELSE LET sg == PullSignal(s, i, s.time) IN
         IF sg # "none"
         THEN Raise([s EXCEPT !.sig = sg, !.asked = @ \cup {i}], sg)
         ELSE LET s1 == [s EXCEPT !.pulls = @ + 1, !.asked = @ \cup {i}] IN
              IF ~s1.infos THEN Raise(s1, "TypeError")
              ELSE LET s2 == XyPlot_extract_data(s1, s1.info[i]) IN
                   IF ~Ok(s2) THEN s2
                   ELSE [s2 EXCEPT !.x[i] = <<s.time>>,
                                   !.data[i] = <<PullValue(i, s.time)>>,
                                   !.lineX[i] = <<s.time>>]

XyPlot_update_plot(s) ==
    LET s1 == IF s.prim THEN s
              ELSE IF ~s.figure THEN Raise(s, "AttributeError")
              ELSE [s EXCEPT !.prim = TRUE, !.primCreated = @ + 1]
    IN  XyPlot_pull(XyPlot_pull(s1, 1), 2)

XyPlot_connect(s, R) ==
    LET s1 == try_connect(IF ~s.figure THEN create_figure(s) ELSE s, R) IN
    IF s1.status = "CONNECTED"
    THEN [s1 EXCEPT !.infos = TRUE, !.info = [i \in {1, 2} |-> grid[i]]]
    ELSE s1

\* Variant: validate() leaves the line list to the first notification.
XyPlot_validate_idle(s) == s

XyPlot_validate(s) == XyPlot_update_plot(s)

\* The cadence gate of XyPlot._data_changed: a repaint that raises leaves the
\* counter as it was.
XyPlot_gate(s, t) ==
    IF s.time = t THEN s
    ELSE LET s1 == IF s.counter % s.N = 0 THEN repaint(s) ELSE s IN
         IF Ok(s1) THEN tick(s1) ELSE s1

XyPlot_data_changed(s, i, t) ==
    LET s1 == XyPlot_gate(s, t) IN
    IF ~Ok(s1) THEN s1
    ELSE XyPlot_update_plot([s1 EXCEPT !.caller = i, !.time = t])

\* ------------------------------------------------------------- SchedulePlot
SchedulePlot_connect(s, R) ==
    try_connect(IF ~s.figure THEN create_figure(s) ELSE s, R)

\* figure.show()
SchedulePlot_validate(s) ==
    IF ~s.figure THEN Raise(s, "AttributeError") ELSE s

\* SchedulePlot._update_plot: lines on the first call, the time appended to the
\* caller's series, then a synchronous draw and flush.  The plotting backend
\* converts the series when it draws: whether it accepts a time that is not
\* a datetime is the backend's choice (accepts).
SchedulePlot_update_plot(s, i, t, accepts) ==
    LET s1 == IF s.prim THEN s
              ELSE IF ~s.figure THEN Raise(s, "AttributeError")
              ELSE [s EXCEPT !.prim = TRUE, !.primCreated = @ + 1]
    IN  IF ~Ok(s1) THEN s1
        ELSE LET s2 == [s1 EXCEPT !.x[i] = Append(@, t),
                                  !.lineX[i] = Append(s1.x[i], t)] IN
             IF t = BadTime /\ ~accepts THEN Raise(s2, "TypeError")
             ELSE Flush(s2)

SchedulePlot_data_changed(s, i, t, accepts) ==
    SchedulePlot_update_plot(s, i, t, accepts)

\* ------------------------------------------------------------- GridSpecPlot
\* Variant: connect records the info of the first input only.
GridSpecPlot_connect_first(s, R) ==
    LET s1 == try_connect(s, R) IN
    [s1 EXCEPT !.info = [i \in {1, 2} |-> IF i \in R /\ i = 1 THEN grid[i]
                                                              ELSE @[i]]]

GridSpecPlot_connect(s, R) ==
    LET s1 == try_connect(s, R) IN
    [s1 EXCEPT !.info = [i \in {1, 2} |-> IF i \in R THEN grid[i] ELSE @[i]]]

\* GridSpecPlot._update_plot: a new figure, every grid drawn (a NoGrid has no
\* data_points), one draw and flush.
GridSpecPlot_update_plot(s) ==
    LET s1 == create_figure(s) IN
    IF \E i \in s1.inputs : s1.info[i] \in {"None", "NoGrid"}
    THEN Raise(s1, "AttributeError")
    ELSE Flush(s1)

GridSpecPlot_validate(s) == GridSpecPlot_update_plot(s)

GridSpecPlot_data_changed(s, i, t) == s


\* ------------------------------------------------ the component's lifecycle
\* Variant: initialize() opens the figure as well.
Component_initialize_figure(s) ==
    [create_figure(s) EXCEPT !.inputs = InputsOf(s.kind),
                             !.status = "INITIALIZED"]

\* _initialize of every component: one CallbackInput per configured name and
\* the connector; the framework then sets the status.
Component_initialize(s) ==
    [s EXCEPT !.inputs = InputsOf(s.kind), !.status = "INITIALIZED"]

\* connect(): the component's _connect; the status is the one try_connect set.
Component_connect(s, R) ==
    CASE s.kind = "ImagePlot" -> ImagePlot_connect(s, R)
      [] s.kind = "ColorMeshPlot" -> ColorMeshPlot_connect(s, R)
      [] s.kind = "ContourPlot" -> ContourPlot_connect(s, R)
      [] s.kind = "TimeSeriesPlot" -> TimeSeriesPlot_connect(s, R)
      [] s.kind = "XyPlot" -> XyPlot_connect(s, R)
      [] s.kind = "SchedulePlot" -> SchedulePlot_connect(s, R)
      [] OTHER -> GridSpecPlot_connect(s, R)

\* _validate of each component (pass in PlotBase, ImagePlot, ColorMeshPlot).
Hook_validate(s) ==
    CASE s.kind = "TimeSeriesPlot" -> TimeSeriesPlot_validate(s)
      [] s.kind = "XyPlot" -> XyPlot_validate(s)
      [] s.kind = "SchedulePlot" -> SchedulePlot_validate(s)
      [] s.kind = "GridSpecPlot" -> GridSpecPlot_validate(s)
      [] OTHER -> s

\* validate(): _validate, then status VALIDATED.
Component_validate(s) ==
    LET s1 == Hook_validate(s) IN
    IF Ok(s1) THEN [s1 EXCEPT !.status = "VALIDATED"] ELSE s1

\* _update of each component: ImagePlot and ColorMeshPlot plot, the others
\* do nothing.
Hook_update(s) ==
    CASE s.kind = "ImagePlot" -> ImagePlot_plot(s)
      [] s.kind = "ColorMeshPlot" -> ColorMeshPlot_plot(s)
      [] OTHER -> s

\* update(): _update, then status UPDATED.
Component_update(s) ==
    LET s1 == Hook_update(s) IN
    IF Ok(s1) THEN [s1 EXCEPT !.status = "UPDATED"] ELSE s1

\* _finalize of each component: TimeSeriesPlot repaints, the others pass.
Hook_finalize(s) ==
    IF s.kind = "TimeSeriesPlot" THEN TimeSeriesPlot_finalize(s) ELSE s

\* finalize(): _finalize, then status FINALIZED.
Component_finalize(s) ==
    LET s1 == Hook_finalize(s) IN
    IF Ok(s1) THEN [s1 EXCEPT !.status = "FINALIZED"] ELSE s1

\* CallbackInput.source_updated: the callback _data_changed(caller, time).
Component_notify(s, i, t, accepts) ==
    CASE s.kind = "ImagePlot" -> ImagePlot_data_changed(s, i, t)
      [] s.kind = "ColorMeshPlot" -> ColorMeshPlot_data_changed(s, i, t)
      [] s.kind = "ContourPlot" -> ContourPlot_data_changed(s, i, t)
      [] s.kind = "TimeSeriesPlot" -> TimeSeriesPlot_data_changed(s, i, t)
      [] s.kind = "XyPlot" -> XyPlot_data_changed(s, i, t)
      [] s.kind = "SchedulePlot" -> SchedulePlot_data_changed(s, i, t, accepts)
      [] OTHER -> GridSpecPlot_data_changed(s, i, t)

\* --------------------------------------------------------------- the host
\* Every call starts with no pull signal recorded; avail are the inputs
\* whose producer has pushed data by then.
Begin(s, A) == [s EXCEPT !.sig = "none", !.avail = A, !.asked = {}]

Avail == {i \in {1, 2} : produced[i]}

\* The call, with the status, stored time, cadence counter and pull count it
\* found.
Call(op, i, t) ==
    [op |-> op, inp |-> i, t |-> t, st |-> c.status,
     had |-> IF i = 0 THEN FALSE ELSE produced'[i],
     ptime |-> c.time, pcounter |-> c.counter, ppulls |-> c.pulls]

\* The notifications so far: how many, how many carried no datetime, and the
\* flushes and pulls they made.
\* live: every one arrived in VALIDATED or UPDATED with data to pull.
\* ordered: no notification carried a datetime earlier than one delivered
\* before it, to any input.
\* fed[i]: the times input i was notified with; early[i]: how many of them
\* arrived before validate() completed; vtime: the time stored at validate().
NoNotes ==
    [notes |-> 0, odd |-> 0, live |-> TRUE, ordered |-> TRUE,
     nflush |-> 0, npull |-> 0,
     fed |-> [i \in {1, 2} |-> <<>>], early |-> [i \in {1, 2} |-> 0],
     vtime |-> NoneTime]

\* The latest datetime in q (None when there is none).
RECURSIVE LastSent(_)
LastSent(q) ==
    IF q = <<>> THEN NoneTime
    ELSE IF q[Len(q)] >= 0 THEN q[Len(q)]
    ELSE LastSent(SubSeq(q, 1, Len(q) - 1))

Noted(i, t, s) ==
    [h EXCEPT !.notes = @ + 1,
              !.odd = IF t \in Times THEN @ ELSE @ + 1,
              !.live = @ /\ c.status \in Running /\ produced'[i],
              !.ordered = @ /\ \A j \in {1, 2} : t >= 0 => t >= LastSent(h.fed[j]),
              !.nflush = @ + (s.flushes - c.flushes),
              !.npull = @ + (s.pulls - c.pulls),
              !.fed[i] = Append(@, t)]


\* The host stops calling a component that raised.  initialize and the connect
\* rounds are bounded by the lifecycle; the other calls by MaxCalls.
CanCall == Ok(c) /\ n < MaxCalls

Init ==
    /\ \E kind \in Kinds :
         \E interval \in 1..MaxInterval :
           \E axes \in AxesArgs :
             /\ kind \notin CadencePlots => interval = 1
             /\ kind \notin {"ImagePlot", "ColorMeshPlot"} => axes = "01"
             /\ c = NewComponent(kind, interval, axes)
             /\ grid \in [{1, 2} -> Grids]
             /\ grid[1] \in GridsFor(kind)
             /\ grid[2] = CASE kind = "XyPlot" -> "NoGrid"
                             [] kind = "GridSpecPlot" -> "UnstructuredPoints"
                             [] OTHER -> grid[1]
    /\ produced = [i \in {1, 2} |-> FALSE]
    /\ resolved = {}
    /\ last = [op |-> "new", inp |-> 0, t |-> NoneTime, st |-> "CREATED",
               had |-> FALSE, ptime |-> NoneTime, pcounter |-> 0, ppulls |-> 0]
    /\ h = NoNotes
    /\ n = 0
    /\ twin = "none"

Initialize ==
    /\ Ok(c)
    /\ c.status = "CREATED"
    /\ c' = Component_initialize(Begin(c, Avail))
    /\ last' = Call("initialize", 0, NoneTime)
    /\ UNCHANGED <<twin, produced, resolved, grid, h, n>>

\* One connect round: the connector resolves the infos of some more inputs.
Connect ==
    /\ Ok(c)
    /\ c.status \in {"INITIALIZED", "CONNECTING"}
    /\ \E R \in SUBSET c.inputs :
         /\ resolved \subseteq R
         /\ c' = Component_connect(Begin(c, Avail), R)
         /\ resolved' = R
    /\ last' = Call("connect", 0, NoneTime)
    /\ UNCHANGED <<twin, produced, grid, h, n>>

Validate ==
    /\ CanCall
    /\ c.status = "CONNECTED"
    /\ c' = Component_validate(Begin(c, Avail))
    /\ last' = Call("validate", 0, NoneTime)
    /\ h' = [h EXCEPT !.early = [i \in {1, 2} |-> Len(h.fed[i])],
                      !.vtime = c.time]
    /\ n' = n + 1
    /\ UNCHANGED <<twin, produced, resolved, grid>>

Update ==
    /\ CanCall
    /\ c.status \in Running
    /\ c' = Component_update(Begin(c, Avail))
    /\ last' = Call("update", 0, NoneTime)
    /\ n' = n + 1
    /\ UNCHANGED <<twin, produced, resolved, grid, h>>

Finalize ==
    /\ CanCall
    /\ c.status \in Before \cup Running
    /\ c' = Component_finalize(Begin(c, Avail))
    /\ last' = Call("finalize", 0, NoneTime)
    /\ n' = n + 1
    /\ UNCHANGED <<twin, produced, resolved, grid, h>>

\* The callback of input i is invoked with time t, by a producer that has
\* just pushed data (push: its info must have been exchanged) or by a caller
\* that has pushed none, in any status after initialize(), FINALIZED included
\* (a producer may push while the run is torn down); within one input the
\* datetimes never decrease.  One notification of a run at most carries a
\* time that is no datetime.
Notify ==
    /\ CanCall
    /\ h.notes < MaxNotes
    /\ c.status \in Before \cup Running \cup {"FINALIZED"}
    /\ \E i \in c.inputs :
         \E t \in TimeArgs :
           \E accepts \in BOOLEAN, push \in BOOLEAN :
             /\ push => i \in resolved /\ ~produced[i]
             /\ produced' = IF push THEN [produced EXCEPT ![i] = TRUE]
                                    ELSE produced
             /\ t \in Times => t >= LastSent(h.fed[i])
             /\ t \notin Times => h.odd = 0
             /\ ~(c.kind = "SchedulePlot" /\ t = BadTime) => accepts
             /\ c' = Component_notify(
                        Begin(c, {j \in {1, 2} : produced'[j]}), i, t, accepts)
             /\ last' = Call("notify", i, t)
             /\ h' = Noted(i, t, c')
    /\ n' = n + 1
    /\ UNCHANGED <<twin, resolved, grid>>

Next ==
    \/ Initialize
    \/ Connect
    \/ Validate
    \/ Update
    \/ Finalize
    \/ Notify

Spec == Init /\ [][Next]_vars

\* ------------------------------------------------- the two-generator run
\* tests/test_time_series.py, TestPushTimeSeries: a TimeSeriesPlot with
\* update-interval 1 fed by two generators, input 1 every StepA days and
\* input 2 every StepB days, for the days 0 .. ScnDays - 1.  A generator
\* pushes its value of day 0 in the connect phase, once its info is
\* exchanged, and its later values after validate(); the host delivers the
\* two generators' notifications in any order.
Step(i) == IF i = 1 THEN StepA ELSE StepB

\* The day of generator i's next push, and how many pushes it makes in all.
NextDay(i) == Len(h.fed[i]) * Step(i)
Pushes(i) == (ScnDays + Step(i) - 1) \div Step(i)

ScnInit ==
    /\ c = NewComponent("TimeSeriesPlot", 1, "01")
    /\ grid = [i \in {1, 2} |-> "NoGrid"]
    /\ produced = [i \in {1, 2} |-> FALSE]
    /\ resolved = {}
    /\ last = [op |-> "new", inp |-> 0, t |-> NoneTime, st |-> "CREATED",
               had |-> FALSE, ptime |-> NoneTime, pcounter |-> 0, ppulls |-> 0]
    /\ h = NoNotes
    /\ n = 0
    /\ twin = "none"

ScnInitialize ==
    /\ Ok(c)
    /\ c.status = "CREATED"
    /\ c' = Component_initialize(Begin(c, Avail))
    /\ last' = Call("initialize", 0, NoneTime)
    /\ UNCHANGED <<twin, produced, resolved, grid, h, n>>

ScnConnect ==
    /\ Ok(c)
    /\ c.status \in {"INITIALIZED", "CONNECTING"}
    /\ \E R \in SUBSET c.inputs :
         /\ resolved \subseteq R
         /\ c' = Component_connect(Begin(c, Avail), R)
         /\ resolved' = R
    /\ last' = Call("connect", 0, NoneTime)
    /\ UNCHANGED <<twin, produced, grid, h, n>>

ScnValidate ==
    /\ Ok(c)
    /\ c.status = "CONNECTED"
    /\ c' = Component_validate(Begin(c, Avail))
    /\ last' = Call("validate", 0, NoneTime)
    /\ h' = [h EXCEPT !.early = [i \in {1, 2} |-> Len(h.fed[i])],
                      !.vtime = c.time]
    /\ n' = n + 1
    /\ UNCHANGED <<twin, produced, resolved, grid>>

\* Generator i pushes its next value and the callback of input i runs.
ScnPush ==
    /\ Ok(c)
    /\ \E i \in resolved :
         /\ NextDay(i) < ScnDays
         /\ IF h.fed[i] = <<>> THEN c.status = "CONNECTING"
                               ELSE c.status \in Running
         /\ produced' = [produced EXCEPT ![i] = TRUE]
         /\ c' = Component_notify(
                    Begin(c, {j \in {1, 2} : produced'[j]}), i, NextDay(i), TRUE)
         /\ last' = Call("notify", i, NextDay(i))
         /\ h' = Noted(i, NextDay(i), c')
    /\ n' = n + 1
    /\ UNCHANGED <<twin, resolved, grid>>

\* The run is over: both generators have pushed every value.
ScnDone == \A i \in {1, 2} : Len(h.fed[i]) = Pushes(i)

ScnFinalize ==
    /\ Ok(c)
    /\ c.status \in Running
    /\ ScnDone
    /\ c' = Component_finalize(Begin(c, Avail))
    /\ last' = Call("finalize", 0, NoneTime)
    /\ n' = n + 1
    /\ UNCHANGED <<twin, produced, resolved, grid, h>>

ScnNext ==
    \/ ScnInitialize
    \/ ScnConnect
    \/ ScnValidate
    \/ ScnPush
    \/ ScnFinalize

ScnSpec == ScnInit /\ [][ScnNext]_vars


\* ------------------------------------------------------ StepTimeSeriesPlot
\* A time component with its own step: it declares plain inputs (no
\* callback) and pulls them in update().  Times are days since the configured
\* start; the step is StepA or StepB days.
StartArgs == {"datetime", "int"}
StepArgs == {"timedelta", "int"}
StepDays == {StepA, StepB}
\* intervals: None (the empty tuple) or one positive interval per input.
IntervalArgs == {<<>>} \cup [{1, 2} -> 1..MaxInterval]

\* The fields __init__ assigns; status NONE and err ValueError when it raised
\* (no instance is handed to the caller).
StepTimeSeriesPlot_fields(days, intervals, interval) ==
    [ kind |-> "StepTimeSeriesPlot",
      N |-> interval,
      step |-> days,
      intervals |-> IF intervals # <<>> THEN intervals
                    ELSE [i \in {1, 2} |-> 1],
      status |-> "CREATED",
      err |-> "none",
      inputs |-> {},
      time |-> 0,
      updates |-> 0,
      figure |-> FALSE,
      prim |-> FALSE,
      x |-> [i \in {1, 2} |-> <<>>],
      data |-> [i \in {1, 2} |-> <<>>],
      flushes |-> 0,
      pulls |-> 0,
      figCreated |-> 0,
      primCreated |-> 0,
      sig |-> "none",
      \* shownPulls: how many pulls had been made when the last flush painted
      shownPulls |-> 0,
      \* asked: the inputs pull_data was called on during the current call
      asked |-> {},
      avail |-> {},
      lineX |-> [i \in {1, 2} |-> <<>>],
      shown |-> [i \in {1, 2} |-> <<>>] ]

NoInstance(s) == [s EXCEPT !.status = "NONE", !.err = "ValueError"]

StepTimeSeriesPlot_init_lax(start, step, days, intervals, interval) ==
    IF start # "datetime"
    THEN NoInstance(StepTimeSeriesPlot_fields(days, intervals, interval))
    ELSE StepTimeSeriesPlot_fields(days, intervals, interval)

StepTimeSeriesPlot_init(start, step, days, intervals, interval) ==
    IF start # "datetime" \/ step # "timedelta"
    THEN NoInstance(StepTimeSeriesPlot_fields(days, intervals, interval))
    ELSE StepTimeSeriesPlot_fields(days, intervals, interval)

\* next_time
StepTimeSeriesPlot_next_time(s) == s.time + s.step

StepTimeSeriesPlot_initialize(s) ==
    [s EXCEPT !.inputs = {1, 2}, !.status = "INITIALIZED"]

StepTimeSeriesPlot_connect(s, R) == try_connect(s, R)

\* _validate creates the figure; validate() then sets VALIDATED.
StepTimeSeriesPlot_validate(s) ==
    [create_figure(s) EXCEPT !.status = "VALIDATED"]

\* The lines are created by the first update.
StepTimeSeriesPlot_lines(s) ==
    IF s.prim THEN s
    ELSE IF ~s.figure THEN Raise(s, "AttributeError")
    ELSE [s EXCEPT !.prim = TRUE, !.primCreated = @ + 1]

\* Variant: retrieval follows the redraw interval.
StepTimeSeriesPlot_due_cadence(s, i) == s.updates % s.N = 0

\* Input i is due on this update.
StepTimeSeriesPlot_due_always(s, i) == TRUE

StepTimeSeriesPlot_due(s, i) == s.updates % s.intervals[i] = 0

\* Variant: the time is appended before the pull is made.
StepTimeSeriesPlot_pull_early(s, i) ==
    IF ~Ok(s) \/ ~StepTimeSeriesPlot_due(s, i) THEN s
    ELSE LET s1 == [s EXCEPT !.asked = @ \cup {i},
                             !.x[i] = Append(@, s.time)] IN
         IF i \notin s.avail
         THEN [Raise(s1, "FinamNoDataError") EXCEPT !.sig = "FinamNoDataError"]
         ELSE [s1 EXCEPT !.data[i] = Append(@, PullValue(i, s.time)),
                         !.pulls = @ + 1]

\* One round of the retrieval loop: a due input is pulled at the component's
\* time and the pair appended to its series.
StepTimeSeriesPlot_pull(s, i) ==
    IF ~Ok(s) \/ ~StepTimeSeriesPlot_due(s, i) THEN s
    ELSE IF i \notin s.avail
    THEN [Raise(s, "FinamNoDataError") EXCEPT !.sig = "FinamNoDataError",
                                              !.asked = @ \cup {i}]
    ELSE [s EXCEPT !.asked = @ \cup {i},
                   !.x[i] = Append(@, s.time),
                   !.data[i] = Append(@, PullValue(i, s.time)),
                   !.pulls = @ + 1]

\* On the updates the redraw interval lets through, the lines are handed
\* the series and the figure is repainted.
StepTimeSeriesPlot_redraw(s) ==
    IF ~Ok(s) \/ s.updates % s.N # 0 THEN s
    ELSE repaint([s EXCEPT !.lineX = s.x])

\* _update, then update() sets UPDATED.
StepTimeSeriesPlot_update(s) ==
    LET s1 == StepTimeSeriesPlot_lines([s EXCEPT !.time = @ + s.step])
        s2 == IF Ok(s1)
              THEN StepTimeSeriesPlot_pull(StepTimeSeriesPlot_pull(s1, 1), 2)
              ELSE s1
        s3 == StepTimeSeriesPlot_redraw(s2)
    IN  IF Ok(s3) THEN [s3 EXCEPT !.updates = @ + 1, !.status = "UPDATED"]
        ELSE s3

\* _finalize repaints; finalize() then sets FINALIZED.
StepTimeSeriesPlot_finalize(s) ==
    LET s1 == repaint(s) IN
    IF Ok(s1) THEN [s1 EXCEPT !.status = "FINALIZED"] ELSE s1


\* ------------------------------------------- the host of a stepping plot
\* The constructor arguments are the host's choice; h keeps them.  The two
\* producers push on their own schedule once their info is exchanged; the
\* host steps the component at most MaxUpdates times.
StepCall(op) ==
    [op |-> op, st |-> c.status, ptime |-> c.time, pupdates |-> c.updates]

StepInit ==
    /\ \E start \in StartArgs, step \in StepArgs, days \in StepDays,
          intervals \in IntervalArgs, interval \in 1..MaxInterval :
         /\ c = StepTimeSeriesPlot_init(start, step, days, intervals, interval)
         /\ h = [start |-> start, step |-> step, intervals |-> intervals]
    /\ grid = [i \in {1, 2} |-> "NoGrid"]
    /\ produced = [i \in {1, 2} |-> FALSE]
    /\ resolved = {}
    /\ last = [op |-> "new", st |-> "NONE", ptime |-> 0, pupdates |-> 0]
    /\ n = 0
    /\ twin = "none"

StepInitialize ==
    /\ Ok(c)
    /\ c.status = "CREATED"
    /\ c' = StepTimeSeriesPlot_initialize(Begin(c, Avail))
    /\ last' = StepCall("initialize")
    /\ UNCHANGED <<twin, produced, resolved, grid, h, n>>

StepConnect ==
    /\ Ok(c)
    /\ c.status \in {"INITIALIZED", "CONNECTING"}
    /\ \E R \in SUBSET c.inputs :
         /\ resolved \subseteq R
         /\ c' = StepTimeSeriesPlot_connect(Begin(c, Avail), R)
         /\ resolved' = R
    /\ last' = StepCall("connect")
    /\ UNCHANGED <<twin, produced, grid, h, n>>

\* A producer pushes its first value; the plain input runs no callback.
StepPush ==
    /\ Ok(c)
    /\ c.status \in {"CONNECTING", "CONNECTED"} \cup Running
    /\ \E i \in resolved :
         /\ ~produced[i]
         /\ produced' = [produced EXCEPT ![i] = TRUE]
    /\ UNCHANGED <<twin, c, resolved, grid, last, h, n>>

StepValidate ==
    /\ Ok(c)
    /\ c.status = "CONNECTED"
    /\ c' = StepTimeSeriesPlot_validate(Begin(c, Avail))
    /\ last' = StepCall("validate")
    /\ n' = n + 1
    /\ UNCHANGED <<twin, produced, resolved, grid, h>>

StepUpdate ==
    /\ Ok(c)
    /\ c.status \in Running
    /\ c.updates < MaxUpdates
    /\ c' = StepTimeSeriesPlot_update(Begin(c, Avail))
    /\ last' = StepCall("update")
    /\ n' = n + 1
    /\ UNCHANGED <<twin, produced, resolved, grid, h>>

StepFinalize ==
    /\ Ok(c)
    /\ c.status \in Before \cup Running
    /\ c' = StepTimeSeriesPlot_finalize(Begin(c, Avail))
    /\ last' = StepCall("finalize")
    /\ n' = n + 1
    /\ UNCHANGED <<twin, produced, resolved, grid, h>>

StepNext ==
    \/ StepInitialize
    \/ StepConnect
    \/ StepPush
    \/ StepValidate
    \/ StepUpdate
    \/ StepFinalize

StepSpec == StepInit /\ [][StepNext]_vars


\* --------------------------------------------------- two instances, one run
\* Two instances of one component, constructed with the same arguments but
\* for update_interval (c the shorter, twin the longer), wired to the same
\* producers and given the same calls by the host.
PairKinds == CadencePlots \cup {"StepTimeSeriesPlot"}
IsStep(s) == s.kind = "StepTimeSeriesPlot"

PairNew(kind, days, intervals, interval) ==
    IF kind = "StepTimeSeriesPlot"
    THEN StepTimeSeriesPlot_init("datetime", "timedelta", days, intervals,
                                 interval)
    ELSE NewComponent(kind, interval, "01")

Pair_initialize(s) ==
    IF IsStep(s) THEN StepTimeSeriesPlot_initialize(s)
    ELSE Component_initialize(s)
Pair_connect(s, R) ==
    IF IsStep(s) THEN StepTimeSeriesPlot_connect(s, R)
    ELSE Component_connect(s, R)
Pair_validate(s) ==
    IF IsStep(s) THEN StepTimeSeriesPlot_validate(s)
    ELSE Component_validate(s)
Pair_update(s) ==
    IF IsStep(s) THEN StepTimeSeriesPlot_update(s) ELSE Component_update(s)
Pair_finalize(s) ==
    IF IsStep(s) THEN StepTimeSeriesPlot_finalize(s)
    ELSE Component_finalize(s)

PairCall(op, i, t) == IF IsStep(c) THEN StepCall(op) ELSE Call(op, i, t)
PairCan == Ok(c) /\ Ok(twin) /\ twin.status = c.status

PairInit ==
    /\ \E kind \in PairKinds, days \in StepDays, intervals \in IntervalArgs,
          i1 \in 1..MaxInterval, i2 \in 1..MaxInterval :
         /\ i1 < i2
         /\ kind # "StepTimeSeriesPlot" => days = StepA /\ intervals = <<>>
         /\ c = PairNew(kind, days, intervals, i1)
         /\ twin = PairNew(kind, days, intervals, i2)
         /\ grid \in [{1, 2} -> Grids]
         /\ grid[1] \in GridsFor(kind)
         /\ grid[2] = IF kind = "ContourPlot" THEN grid[1] ELSE "NoGrid"
         /\ last = IF kind = "StepTimeSeriesPlot"
                   THEN [op |-> "new", st |-> "NONE", ptime |-> 0,
                         pupdates |-> 0]
                   ELSE [op |-> "new", inp |-> 0, t |-> NoneTime,
                         st |-> "CREATED", had |-> FALSE, ptime |-> NoneTime,
                         pcounter |-> 0, ppulls |-> 0]
    /\ produced = [i \in {1, 2} |-> FALSE]
    /\ resolved = {}
    /\ h = NoNotes
    /\ n = 0

PairInitialize ==
    /\ PairCan
    /\ c.status = "CREATED"
    /\ c' = Pair_initialize(Begin(c, Avail))
    /\ twin' = Pair_initialize(Begin(twin, Avail))
    /\ last' = PairCall("initialize", 0, NoneTime)
    /\ UNCHANGED <<produced, resolved, grid, h, n>>

PairConnect ==
    /\ PairCan
    /\ c.status \in {"INITIALIZED", "CONNECTING"}
    /\ \E R \in SUBSET c.inputs :
         /\ resolved \subseteq R
         /\ c' = Pair_connect(Begin(c, Avail), R)
         /\ twin' = Pair_connect(Begin(twin, Avail), R)
         /\ resolved' = R
    /\ last' = PairCall("connect", 0, NoneTime)
    /\ UNCHANGED <<produced, grid, h, n>>

\* A producer of a stepping plot pushes its first value (no callback runs).
PairPush ==
    /\ PairCan
    /\ IsStep(c)
    /\ c.status \in {"CONNECTING", "CONNECTED"} \cup Running
    /\ \E i \in resolved :
         /\ ~produced[i]
         /\ produced' = [produced EXCEPT ![i] = TRUE]
    /\ UNCHANGED <<c, twin, resolved, grid, last, h, n>>

PairValidate ==
    /\ PairCan /\ n < MaxCalls
    /\ c.status = "CONNECTED"
    /\ c' = Pair_validate(Begin(c, Avail))
    /\ twin' = Pair_validate(Begin(twin, Avail))
    /\ last' = PairCall("validate", 0, NoneTime)
    /\ n' = n + 1
    /\ UNCHANGED <<produced, resolved, grid, h>>

PairUpdate ==
    /\ PairCan /\ n < MaxCalls
    /\ c.status \in Running
    /\ c' = Pair_update(Begin(c, Avail))
    /\ twin' = Pair_update(Begin(twin, Avail))
    /\ last' = PairCall("update", 0, NoneTime)
    /\ n' = n + 1
    /\ UNCHANGED <<produced, resolved, grid, h>>

PairFinalize ==
    /\ PairCan /\ n < MaxCalls
    /\ c.status \in Before \cup Running
    /\ c' = Pair_finalize(Begin(c, Avail))
    /\ twin' = Pair_finalize(Begin(twin, Avail))
    /\ last' = PairCall("finalize", 0, NoneTime)
    /\ n' = n + 1
    /\ UNCHANGED <<produced, resolved, grid, h>>

\* The callbacks of both instances' input i run with the same time.
PairNotify ==
    /\ PairCan /\ n < MaxCalls
    /\ ~IsStep(c)
    /\ h.notes < MaxNotes
    /\ c.status \in Before \cup Running
    /\ \E i \in c.inputs :
         \E t \in TimeArgs, push \in BOOLEAN :
           /\ push => i \in resolved /\ ~produced[i]
           /\ produced' = IF push THEN [produced EXCEPT ![i] = TRUE]
                                  ELSE produced
           /\ t \in Times => t >= LastSent(h.fed[i])
           /\ t \notin Times => h.odd = 0
           /\ c' = Component_notify(
                      Begin(c, {j \in {1, 2} : produced'[j]}), i, t, TRUE)
           /\ twin' = Component_notify(
                      Begin(twin, {j \in {1, 2} : produced'[j]}), i, t, TRUE)
           /\ last' = Call("notify", i, t)
           /\ h' = Noted(i, t, c')
    /\ n' = n + 1
    /\ UNCHANGED <<resolved, grid>>

PairNext ==
    \/ PairInitialize
    \/ PairConnect
    \/ PairPush
    \/ PairValidate
    \/ PairUpdate
    \/ PairFinalize
    \/ PairNotify

PairSpec == PairInit /\ [][PairNext]_vars


\* ===================================================================== C1..
NotifyDone == last.op = "notify"
\* The notifications so far carried pairwise distinct datetimes.
Fresh ==
    /\ h.odd = 0
    /\ \A i \in {1, 2} : \A j, k \in 1..Len(h.fed[i]) :
           j # k => h.fed[i][j] # h.fed[i][k]
    /\ \A j \in 1..Len(h.fed[1]) : \A k \in 1..Len(h.fed[2]) :
           h.fed[1][j] # h.fed[2][k]
ValidTime == last.t # BadTime
NoDataEver == \A i \in {1, 2} : ~produced[i]
CacheUnset == ~c.figure /\ ~c.prim /\ ~c.timeText

\* C1: a notify that arrives after validate() has completed (status
\* VALIDATED or UPDATED) and whose pull signals FinamNoDataError raises a
\* fatal error out of the notify call; the signal is never swallowed there.
C1_NoDataAfterValidateIsFatal ==
    (NotifyDone /\ last.st \in Running /\ c.sig = "FinamNoDataError")
        => ~Ok(c)

\* C2: a notify that arrives before validate() completes (INITIALIZED,
\* CONNECTING, CONNECTED), when no data has ever been produced, does not
\* raise and leaves the drawable cache unset.
C2_NoDataBeforeValidateIsSwallowed ==
    (NotifyDone /\ ValidTime /\ last.st \in Before /\ NoDataEver)
        => (Ok(c) /\ ~c.prim /\ ~c.timeText)

\* C3: for a component with update-interval N, across k*N notifications that
\* carry k*N pairwise distinct new times, the notifications made k
\* render-flush calls and k*N data pulls.
C3_RedrawCadence ==
    (c.kind \in CadencePlots /\ Fresh /\ h.live
       /\ h.notes > 0 /\ h.notes % c.N = 0)
        => (h.nflush = h.notes \div c.N /\ h.npull = h.notes)

\* C4 (as claimed): for every component with an update-interval, a notify
\* carrying the same time as the immediately preceding notify leaves the
\* cadence counter as it was.
C4_SameTimeNeverTicks ==
    (c.kind \in CadencePlots /\ NotifyDone /\ h.notes >= 2
       /\ last.t \in Times /\ last.t = last.ptime)
        => c.counter = last.pcounter

\* C4 (amended): in TimeSeriesPlot and XyPlot a notify changes the cadence
\* counter only when its time differs from the stored one, and then by
\* exactly one (TimeSeriesPlot ticks on every such notify, XyPlot on every one
\* whose repaint did not raise); in ContourPlot every notify whose pull
\* returns data ticks the counter, whatever its time.
C4_TickOnlyOnNewTime ==
    NotifyDone =>
        /\ c.kind \in {"TimeSeriesPlot", "XyPlot"} =>
             /\ last.t = last.ptime => c.counter = last.pcounter
             /\ last.t # last.ptime => c.counter \in {last.pcounter, last.pcounter + 1}
        /\ c.kind = "TimeSeriesPlot" /\ last.t # last.ptime =>
             c.counter = last.pcounter + 1
        /\ c.kind = "XyPlot" /\ last.t # last.ptime /\ Ok(c) =>
             c.counter = last.pcounter + 1
        /\ c.kind = "ContourPlot" /\ last.had /\ last.t # BadTime =>
             c.counter = last.pcounter + 1

\* Two consecutive notifications with the same datetime, the first of which
\* ticked the counter, in a running TimeSeriesPlot.
C4_Witness ==
    /\ NotifyDone /\ c.kind = "TimeSeriesPlot" /\ Ok(c)
    /\ h.notes >= 2 /\ last.t = last.ptime /\ last.t \in Times
    /\ last.st \in Running /\ c.counter >= 1


\* ----------------------------------------------------------------- C5
Increasing(q) == \A j, k \in 1..Len(q) : j < k => q[j] < q[k]
After(q, k) == SubSeq(q, k + 1, Len(q))

C7_FinalizeCompletes ==
    last.op = "finalize" => (Ok(c) /\ c.status = "FINALIZED")


\* ----------------------------------------------------------------- C8
ConnectDone == last.op = "connect" /\ Ok(c)

\* C8 (as claimed): connect() ends in CONNECTED if and only if every declared
\* input has a resolved info after the call, and otherwise in CONNECTING;
\* repeated connect() calls create the figure at most once.
C8_ConnectedIffResolved ==
    ConnectDone =>
        /\ c.status = (IF resolved = c.inputs THEN "CONNECTED" ELSE "CONNECTING")
        /\ c.figCreated <= 1

\* C8 (amended): connect() ends in CONNECTED if and only if every declared
\* input has a resolved info after the call and, in TimeSeriesPlot (whose
\* connector pulls the initial data), every input's producer has pushed its
\* data; otherwise it ends in CONNECTING.  No component ever creates its
\* figure twice; TimeSeriesPlot, XyPlot and SchedulePlot have created it
\* exactly once after any connect().
C8_ConnectStatus ==
    /\ c.figCreated <= 1
    /\ ConnectDone =>
         /\ c.status = (IF resolved = c.inputs /\ PullData(c) \subseteq Avail
                        THEN "CONNECTED" ELSE "CONNECTING")
         /\ c.kind \in {"TimeSeriesPlot", "XyPlot", "SchedulePlot"} =>
                (c.figure /\ c.figCreated = 1)

\* The second round of a two-round negotiation of a TimeSeriesPlot: the call
\* found CONNECTING and left CONNECTED.
C8_Witness ==
    /\ ConnectDone /\ c.kind = "TimeSeriesPlot"
    /\ last.st = "CONNECTING" /\ c.status = "CONNECTED"
    /\ c.figCreated = 1

\* ----------------------------------------------------------------- C9
\* A grid the component cannot render: ImagePlot needs a 2-D uniform grid,
\* ColorMeshPlot a 2-D rectilinear one, XyPlot no grid or a structured one.
Unsupported(kind, g) ==
    CASE kind = "ImagePlot" -> ~(IsUniform(g) /\ GridDim(g) = 2)
      [] kind = "ColorMeshPlot" -> ~(IsRectilinear(g) /\ GridDim(g) = 2)
      [] kind = "XyPlot" -> ~(g = "NoGrid" \/ IsStructured(g))
      [] OTHER -> FALSE

\* C9 (as claimed): once the info of an input whose grid the component cannot
\* render has been resolved, the connect() that resolved it has raised; no
\* notification is processed after it.
C9_RejectedAtConnect ==
    (\E i \in resolved : Unsupported(c.kind, grid[i]))
        => (~Ok(c) /\ last.op = "connect")

\* C9 (amended): ImagePlot and ColorMeshPlot raise ValueError in the connect()
\* round that resolves an unsupported grid, before anything has been pulled.  XyPlot makes no check in connect(): its connect() never raises, and
\* a notification of an input on an unsupported grid, arriving with data once
\* the component is CONNECTED, raises ValueError after it has pulled.
C9_ShapeRejection ==
    /\ (c.kind \in {"ImagePlot", "ColorMeshPlot"} /\ 1 \in resolved
          /\ Unsupported(c.kind, grid[1]))
         => (c.err = "ValueError" /\ last.op = "connect" /\ c.pulls = 0)
    /\ (c.kind = "XyPlot" /\ last.op = "connect") => Ok(c)
    /\ (c.kind = "XyPlot" /\ NotifyDone /\ Unsupported(c.kind, grid[last.inp])
          /\ last.had /\ last.t # BadTime
          /\ last.st \in {"CONNECTED"} \cup Running)
         => (c.err = "ValueError" /\ c.pulls = last.ppulls + 1)

\* An XyPlot input on an unstructured grid: connect() succeeded, and the
\* notification raised after its pull.
C9_Witness ==
    /\ c.kind = "XyPlot" /\ NotifyDone /\ Unsupported(c.kind, grid[last.inp])
    /\ c.err = "ValueError" /\ c.pulls = last.ppulls + 1

DaysOf(i) == [k \in 1..Pushes(i) |-> (k - 1) * Step(i)]
ScnEnd == ScnDone /\ Ok(c) /\ c.status \in Running \cup {"FINALIZED"}

\* C6 (as claimed): at the end of the run input A's cache holds one entry per
\* day, input B's the days 0, 3, 6, 9, and the notifications made exactly one
\* render-flush per distinct time, ScnDays in all, in whatever order the host
\* delivered them.
C6_OneFlushPerDay ==
    ScnEnd => /\ c.x[1] = DaysOf(1)
              /\ c.x[2] = DaysOf(2)
              /\ h.nflush = ScnDays

\* C6 (amended): in whatever order the host delivers the notifications, at
\* the end of the run input A's cache holds one entry per day and input B's
\* the days 0, 3, 6, 9.  A notification flushes when its time differs from
\* the time of the notification delivered before it: the notifications make
\* one flush per distinct time (10) when they are delivered in non-decreasing
\* time order, and more, up to one less than the number of notifications
\* (13), otherwise.
C6_FlushPerTimeChange ==
    ScnEnd => /\ c.x[1] = DaysOf(1)
              /\ c.x[2] = DaysOf(2)
              /\ h.nflush >= Pushes(1)
              /\ h.nflush <= Pushes(1) + Pushes(2) - 1
              /\ h.ordered => h.nflush = Pushes(1)

\* The run ended after a delivery out of time order that flushed on every
\* notification but one.
C6_Witness ==
    /\ ScnEnd /\ ~h.ordered /\ c.status = "FINALIZED"
    /\ Len(c.x[1]) = Pushes(1) /\ Len(c.x[2]) = Pushes(2)
    /\ h.nflush = Pushes(1) + Pushes(2) - 1

\* ---------------------------------------------------------------- C11
\* A notification of an input whose producer has pushed data, with a time
\* pull_data accepts.
DataNotify == NotifyDone /\ last.had /\ last.t # BadTime
Last(q) == q[Len(q)]

\* C11 (as claimed): every notification of a component with a cadence,
\* arriving in CONNECTING, CONNECTED, VALIDATED or UPDATED, makes one pull of
\* the notifying input, and in TimeSeriesPlot the pulled value is in the
\* input's cached series afterwards.
C11_EveryNotifyPullsAndCaches ==
    (DataNotify /\ last.t \in Times /\ c.kind \in CadencePlots
       /\ last.st \in {"CONNECTING", "CONNECTED"} \cup Running)
        => /\ c.pulls = last.ppulls + 1
           /\ c.kind = "TimeSeriesPlot" =>
                 (c.data[last.inp] # <<>>
                    /\ Last(c.data[last.inp]) = PullValue(last.inp, last.t))

\* C11 (amended): in VALIDATED and UPDATED a TimeSeriesPlot notification makes
\* one pull of the notifying input and appends the time and the value to its
\* series, whether or not it repainted; in CONNECTING and CONNECTED it pulls
\* nothing and caches nothing.  XyPlot (once CONNECTED, on a grid it draws)
\* pulls once and keeps the latest value only.  The grid plots pull once per
\* notification and keep no series.  SchedulePlot and GridSpecPlot never pull.
C11_PullPerNotify ==
    DataNotify =>
        /\ (c.kind = "TimeSeriesPlot" /\ last.st \in Running) =>
             /\ Ok(c) /\ c.pulls = last.ppulls + 1
             /\ Last(c.x[last.inp]) = last.t
             /\ Last(c.data[last.inp]) = PullValue(last.inp, last.t)
             /\ Len(c.x[last.inp]) = Len(c.data[last.inp])
        /\ (c.kind = "TimeSeriesPlot" /\ last.st \in {"CONNECTING", "CONNECTED"}) =>
             /\ Ok(c) /\ c.pulls = last.ppulls
             /\ c.x[last.inp] = <<>> /\ c.data[last.inp] = <<>>
        /\ (c.kind = "XyPlot" /\ last.st \in {"CONNECTED"} \cup Running
              /\ ~Unsupported(c.kind, grid[last.inp])) =>
             /\ Ok(c) /\ c.pulls = last.ppulls + 1
             /\ c.data[last.inp] = <<PullValue(last.inp, last.t)>>
        /\ c.kind \in GridPlots => c.pulls = last.ppulls + 1
        /\ c.kind \in {"SchedulePlot", "GridSpecPlot"} => c.pulls = last.ppulls

\* A running TimeSeriesPlot with update-interval 2 caches a notification with
\* a new time that the cadence did not repaint.
C11_Witness ==
    /\ DataNotify /\ c.kind = "TimeSeriesPlot" /\ c.N = 2
    /\ last.st \in Running /\ last.t # last.ptime
    /\ last.pcounter % c.N # 0
    /\ Last(c.x[last.inp]) = last.t /\ c.pulls = last.ppulls + 1

\* ---------------------------------------------------------------- C12
\* C12: after finalize() the rendered state, the data handed to the lines and
\* painted by the last flush, equals the cached series of every input.
C12_FinalizeShowsCache ==
    (last.op = "finalize" /\ c.status = "FINALIZED")
        => \A i \in c.inputs : c.shown[i] = c.x[i]

C14_CacheImpliesPull == c.prim => c.pulls >= 1

\* C14 (amended): the image of ImagePlot and the mesh of ColorMeshPlot are
\* created by the first plot pass whose pull returned data, and a pass whose
\* pull raised leaves them unset.  The line lists do not wait for data:
\* TimeSeriesPlot creates its lines in validate(), just before its first
\* pulls; XyPlot in validate(), without pulling, or in an earlier
\* notification, before that notification's pull; SchedulePlot on the first
\* notification, and it never pulls.
C14_CacheCreation ==
    /\ c.kind \in GridPlots => (c.prim => c.pulls >= 1)
    /\ c.kind \in GridPlots /\ c.sig = "FinamNoDataError" /\ c.pulls = 0
           => ~c.prim
    /\ c.kind = "TimeSeriesPlot" /\ c.status \in Before
           /\ last.op # "validate" => ~c.prim
    /\ c.kind = "XyPlot" /\ c.status \in Before /\ last.op # "validate"
           /\ h.notes = 0 => ~c.prim
    /\ c.kind \in {"TimeSeriesPlot", "XyPlot"} /\ c.status \in Running => c.prim
    /\ c.kind = "TimeSeriesPlot" /\ c.prim /\ Ok(c) => c.pulls >= 2
    /\ c.kind = "SchedulePlot" => c.pulls = 0 /\ (c.prim <=> h.notes > 0 /\ c.figure)

\* A validated XyPlot whose producers never pushed: the line list exists, no
\* pull was made.
C14_Witness ==
    /\ c.kind = "XyPlot" /\ c.status = "VALIDATED" /\ Ok(c)
    /\ c.prim /\ c.pulls = 0 /\ NoDataEver

\* ---------------------------------------------------------------- C15
\* C15: finalize() called in any earlier status leaves the status FINALIZED,
\* and a call that finds the status FINALIZED leaves it FINALIZED.
C15_FinalizedIsTerminal ==
    /\ last.op = "finalize" => c.status = "FINALIZED"
    /\ last.st = "FINALIZED" => c.status = "FINALIZED"

\* ---------------------------------------------------------------- C16
InfoPlots == {"ImagePlot", "ColorMeshPlot", "ContourPlot", "GridSpecPlot"}

\* C16: the info ImagePlot, ColorMeshPlot, ContourPlot and GridSpecPlot record
\* for an input is the one its producer publishes, from the connect() round
\* that resolves it onwards; no record exists before, every input has one
\* once the status is CONNECTED, and no later round or call changes it.
C16_RecordedInfo ==
    c.kind \in InfoPlots =>
        /\ \A i \in c.inputs :
               c.info[i] = (IF i \in resolved THEN grid[i] ELSE "None")
        /\ c.status \in {"CONNECTED"} \cup Running
               => \A i \in c.inputs : c.info[i] # "None"

\* The second round of a two-round negotiation of a GridSpecPlot: both infos
\* are recorded, each the one of its own producer.
C16_Witness ==
    /\ c.kind = "GridSpecPlot" /\ last.op = "connect"
    /\ last.st = "CONNECTING" /\ c.status = "CONNECTED"
    /\ c.info[1] = grid[1] /\ c.info[2] = grid[2] /\ grid[1] # grid[2]

\* ---------------------------------------------------------------- C17
\* C17: a ContourPlot on a 2-D structured grid with the axis pair (0, 1),
\* notified with data on a pass the cadence lets through, draws the contours
\* and does not raise.
C17_StructuredContourDraws ==
    (c.kind = "ContourPlot" /\ DataNotify /\ 1 \in resolved
       /\ IsStructured(grid[1]) /\ GridDim(grid[1]) = 2
       /\ c.axesArg \in {"01", "10"} /\ last.pcounter % c.N = 0)
        => Ok(c)

\* ---------------------------------------------------------------- C18
\* C18: a plot pass of a ContourPlot on unstructured input either plots or
\* raises one of the two errors of the unstructured branch (ValueError when
\* triangulation is needed but switched off, NotImplementedError for filled
\* cell data on a mesh that is not all triangles); nothing else is raised.
C18_UnstructuredContourOutcome ==
    (c.kind = "ContourPlot" /\ DataNotify /\ 1 \in resolved
       /\ grid[1] \in {"UnstructuredPoints", "UnstructuredGrid"}
       /\ last.pcounter % c.N = 0)
        => c.err \in {"none", "ValueError", "NotImplementedError"}

\* ---------------------------------------------------------------- C19
\* C19: constructing a StepTimeSeriesPlot with a start that is no datetime
\* or a step that is no timedelta raises ValueError and yields no instance;
\* with a datetime start and a timedelta step the instance is created.
C19_ConstructorChecks ==
    /\ (h.start # "datetime" \/ h.step # "timedelta")
          => c.status = "NONE" /\ c.err = "ValueError"
    /\ (h.start = "datetime" /\ h.step = "timedelta")
          => /\ c.status # "NONE"
             /\ last.op = "new" => c.status = "CREATED" /\ Ok(c)

\* A datetime start with a step that is no timedelta was rejected.
C19_Witness ==
    h.start = "datetime" /\ h.step = "int" /\ c.status = "NONE"
      /\ c.err = "ValueError"

\* ---------------------------------------------------------------- C20
\* C20: after n updates the series of input i holds ceil(n / intervals[i])
\* entries (intervals default to 1), taken on the updates whose zero-based
\* index is a multiple of intervals[i]; every update advances the time by
\* step before pulling, so entry j (from 0) carries the time
\* start + (j * intervals[i] + 1) * step, in increasing order.
Ceil(a, b) == (a + b - 1) \div b

C20_InterleavedRetrieval ==
    (c.status # "NONE" /\ Ok(c)) =>
        /\ c.intervals = IF h.intervals = <<>> THEN <<1, 1>> ELSE h.intervals
        /\ c.time = c.updates * c.step
        /\ \A i \in {1, 2} :
             LET k == c.intervals[i]
                 cnt == Ceil(c.updates, k)
             IN  /\ Len(c.x[i]) = cnt
                 /\ Len(c.data[i]) = cnt
                 /\ \A j \in 0..(cnt - 1) : c.x[i][j + 1] = (j * k + 1) * c.step
                 /\ Increasing(c.x[i])
        /\ (last.op = "update" /\ c.status = "UPDATED") =>
              /\ c.updates = last.pupdates + 1
              /\ c.time = last.ptime + c.step

\* Three updates with intervals (1, 2): input 2 was skipped on the second.
C20_Witness ==
    /\ Ok(c) /\ c.status = "UPDATED" /\ c.updates = 3
    /\ h.intervals = <<1, 2>> /\ c.step = StepB
    /\ Len(c.x[1]) = 3 /\ c.x[2] = <<StepB, 3 * StepB>>

\* ---------------------------------------------------------------- C21
\* C21: two instances that differ only in update_interval and are given the
\* same calls make the same pulls, hold the same cached series, stored time,
\* status and error; only the render-flushes (and what they painted) differ.
C21_IntervalIndependent ==
    /\ twin.pulls = c.pulls
    /\ twin.x = c.x
    /\ twin.data = c.data
    /\ twin.time = c.time
    /\ twin.status = c.status
    /\ twin.err = c.err
    /\ twin.flushes <= c.flushes

\* Both instances were stepped twice and pulled alike; only the one with the
\* shorter interval flushed on the second update.
C21_Witness ==
    /\ IsStep(c) /\ Ok(c) /\ Ok(twin)
    /\ c.updates = 2 /\ c.pulls >= 3 /\ twin.pulls = c.pulls
    /\ twin.flushes < c.flushes

\* ---------------------------------------------------------------- C22
\* C22: a notification from input A pulls through no input but A, and leaves
\* the cached series and the line data of every other input as they were.
C22_NotifyFrame ==
    [][(last'.op = "notify" /\ n' = n + 1) =>
          /\ c'.asked \subseteq {last'.inp}
          /\ \A b \in c.inputs \ {last'.inp} :
               /\ c'.x[b] = c.x[b]
               /\ c'.data[b] = c.data[b]
               /\ c'.lineX[b] = c.lineX[b]]_vars

\* A running TimeSeriesPlot whose inputs both hold entries was notified by
\* input 2 and pulled through input 2 only.
C22_Witness ==
    /\ c.kind = "TimeSeriesPlot" /\ Ok(c) /\ c.status \in Running
    /\ last.op = "notify" /\ last.inp = 2 /\ c.asked = {2}
    /\ Len(c.x[1]) >= 1 /\ Len(c.x[2]) >= 2

C25_RepaintBeforePull ==
    [][(last'.op = "notify" /\ n' = n + 1
          /\ c'.flushes > c.flushes /\ c'.pulls > c.pulls) =>
          /\ c'.shownPulls = c.pulls
          /\ c'.shown = c.lineX]_vars

\* C25 as the code has it: a notification that both flushes and pulls belongs
\* to a TimeSeriesPlot or an XyPlot, which repaint first and pull afterwards
\* (the frame shows the cache from before the notification), or to an
\* ImagePlot or a ColorMeshPlot, which pull first and paint the pulled value.
C25_PaintOrder ==
    [][(last'.op = "notify" /\ n' = n + 1
          /\ c'.flushes > c.flushes /\ c'.pulls > c.pulls) =>
          \/ /\ c.kind \in {"TimeSeriesPlot", "XyPlot"}
             /\ c'.shownPulls = c.pulls
             /\ c'.shown = c.lineX
          \/ /\ c.kind \in {"ImagePlot", "ColorMeshPlot"}
             /\ c'.shownPulls = c'.pulls]_vars

\* The first notification of a running TimeSeriesPlot repainted the two
\* values validate() had pulled, then pulled the third.
C25_Witness ==
    /\ c.kind = "TimeSeriesPlot" /\ Ok(c) /\ c.status \in Running
    /\ last.op = "notify" /\ last.ppulls = 2 /\ c.pulls = 3
    /\ c.shownPulls = 2 /\ Len(c.shown[last.inp]) + 1 = Len(c.x[last.inp])

\* ---------------------------------------------------------------- C26
\* C26: in the three grid plots a notification whose time is neither None
\* nor a datetime raises ValueError and changes nothing else: the stored
\* time, the figure, the primitives, the cadence counter and the pull count
\* stay, and no pull is attempted; a notification with time None is accepted
\* (the time is stored and the pull is made).
C26_RejectedTimeChangesNothing ==
    [][(last'.op = "notify" /\ n' = n + 1 /\ c.kind \in GridPlots) =>
          /\ last'.t = BadTime =>
                c' = [c EXCEPT !.err = "ValueError", !.sig = "none",
                               !.asked = {}, !.avail = c'.avail]
          /\ last'.t = NoneTime =>
                c'.time = NoneTime /\ c'.asked = {1}]_vars

\* An ImagePlot that had drawn at a datetime rejected a notification.
C26_Witness ==
    /\ c.kind = "ImagePlot" /\ last.op = "notify" /\ last.t = BadTime
    /\ c.err = "ValueError" /\ c.prim /\ c.figure
    /\ c.time \in Times /\ c.time = last.ptime /\ c.pulls = last.ppulls

\* ---------------------------------------------------------------- C27
\* C27: in a TimeSeriesPlot every cached series is empty while the status is
\* before VALIDATED; a notification in CONNECTING or CONNECTED stores the
\* caller and the time without pulling; validate() pulls every input once at
\* the stored time, which is the time of the latest notification, and
\* appends one entry to each series (it raises at the first pull when that
\* time is neither None nor a datetime); after that a notification in VALIDATED
\* or UPDATED (with a time the pull accepts) appends one entry, its time, to
\* the series of the notifying input.
Notified == last'.op = "notify" /\ n' = n + 1

C27_SeriesGrowth ==
    [][c.kind = "TimeSeriesPlot" =>
        /\ c'.status \in Before =>
              /\ \A i \in {1, 2} : c'.x[i] = <<>> /\ c'.data[i] = <<>>
              /\ c'.pulls = 0
        /\ IF Notified THEN Ok(c') => c'.time = last'.t
                       ELSE c'.time = c.time
        /\ (Notified /\ c.status \in {"CONNECTING", "CONNECTED"} /\ Ok(c')) =>
              /\ c'.caller = last'.inp
              /\ c'.asked = {} /\ c'.pulls = c.pulls
              /\ c'.x = c.x /\ c'.data = c.data /\ c'.prim = c.prim
              /\ c'.counter \in {c.counter, c.counter + 1}
        /\ (last'.op = "validate" /\ n' = n + 1) =>
              /\ c'.asked \subseteq {1, 2}
              /\ c.time # BadTime => Ok(c')
              /\ Ok(c') => /\ c'.asked = {1, 2}
                           /\ c'.pulls = c.pulls + 2
                           /\ \A i \in {1, 2} :
                                /\ c'.x[i] = <<c.time>>
                                /\ Len(c'.data[i]) = 1
        /\ (Notified /\ c.status \in Running /\ last'.t # BadTime) =>
              /\ Ok(c')
              /\ c'.pulls = c.pulls + 1
              /\ \A i \in {1, 2} :
                   IF i = last'.inp
                   THEN /\ c'.x[i] = Append(c.x[i], last'.t)
                        /\ Len(c'.data[i]) = Len(c.data[i]) + 1
                   ELSE c'.x[i] = c.x[i] /\ c'.data[i] = c.data[i]]_vars

\* validate() of a TimeSeriesPlot notified twice before gave each series its
\* one entry, at the stored time.
C27_Witness ==
    /\ c.kind = "TimeSeriesPlot" /\ Ok(c) /\ last.op = "validate"
    /\ c.status = "VALIDATED" /\ h.notes >= 2 /\ c.time \in Times
    /\ c.x[1] = <<c.time>> /\ c.x[2] = <<c.time>> /\ c.pulls = 2

\* ---------------------------------------------------------------- C28
\* C28: in a TimeSeriesPlot and a StepTimeSeriesPlot the time list and the
\* value list of every input are equally long in every state, also after a
\* pull that raised; there is one series per input name throughout, and the
\* lines, once created, carry one series each.
SeriesShape(s) ==
    /\ DOMAIN s.x = {1, 2} /\ DOMAIN s.data = {1, 2}
    /\ \A i \in {1, 2} : Len(s.x[i]) = Len(s.data[i])
    /\ s.prim => /\ s.inputs = {1, 2}
                 /\ DOMAIN s.lineX = s.inputs
                 /\ \A i \in s.inputs : Len(s.lineX[i]) <= Len(s.x[i])

C28_SeriesAligned ==
    c.kind \in {"TimeSeriesPlot", "StepTimeSeriesPlot"} =>
        SeriesShape(c) /\ SeriesShape(twin)

\* An update of a StepTimeSeriesPlot pulled input 1 and raised on input 2.
C28_Witness ==
    /\ IsStep(c) /\ c.err = "FinamNoDataError" /\ c.asked = {1, 2}
    /\ Len(c.x[1]) = 1 /\ Len(c.data[1]) = 1 /\ c.x[2] = <<>>

\* ---------------------------------------------------------------- C29
\* C29: in an ImagePlot and a ColorMeshPlot the image or mesh exists only
\* together with the figure and a recorded input info, the time text exists
\* exactly when the image or mesh does, and with an unsupported axes pair
\* (every plot pass raises ValueError) the image or mesh is never created.
C29_HandleInvariant ==
    c.kind \in {"ImagePlot", "ColorMeshPlot"} =>
        /\ c.prim => c.figure /\ c.info[1] # "None"
        /\ c.timeText <=> c.prim
        /\ c.axesArg \notin {"01", "10"} => ~c.prim
        /\ (c.axesArg \notin {"01", "10"} /\ c.pulls >= 1 /\ c.info[1] # "None")
              => c.err = "ValueError"

\* A plot pass with an unsupported axes pair pulled, opened the figure and
\* raised before the image was created.
C29_Witness ==
    /\ c.kind = "ImagePlot" /\ c.axesArg = "other" /\ c.err = "ValueError"
    /\ last.t # BadTime /\ c.pulls = 1 /\ c.figure /\ ~c.prim /\ ~c.timeText

\* ---------------------------------------------------------------- C30
\* C30: a SchedulePlot has no cadence gate and no status gate: every
\* notification (here: with a datetime or None) appends its time to the
\* series of its input and makes one draw and flush, so the cached entries,
\* the notifications received and the flushes are equally many; the lines
\* are created by the first notification and never again.
C30_OneEntryOneFlushPerNotify ==
    (c.kind = "SchedulePlot" /\ h.odd = 0) =>
        /\ Len(c.x[1]) + Len(c.x[2]) = h.notes
        /\ c.flushes = h.notes
        /\ c.x = h.fed
        /\ c.prim <=> h.notes >= 1
        /\ c.primCreated <= 1

====
